---- MODULE Spec2Model ----
(***************************************************************************)
(* Model of the compile-request pipeline of the playground server:         *)
(* handleRun, buildWASM, checkImports, permittedPackages and readArchive.  *)
(* Strings are sequences of one-character strings, so that Split, Ext,     *)
(* Unquote and ValidPath are computed the way the Go code computes them.   *)
(***************************************************************************)
EXTENDS Integers, Sequences, FiniteSets, TLC

(* ------------------------------ bounds -------------------------------- *)
NumReqs == 2
MaxFiles == 2
MaxImports == 2
MaxDirs == 2
MaxOut == 2

(* --------------------------- string helpers --------------------------- *)
Range(s) == {s[i] : i \in 1..Len(s)}

RECURSIVE Flatten(_)
Flatten(ss) == IF ss = <<>> THEN <<>> ELSE Head(ss) \o Flatten(Tail(ss))

\* strings.Index for a one-character separator: 1-based position, 0 if absent
IndexByte(s, c) ==
    IF \E i \in 1..Len(s) : s[i] = c
    THEN CHOOSE i \in 1..Len(s) : s[i] = c /\ \A j \in 1..(i-1) : s[j] # c
    ELSE 0

RECURSIVE Split(_, _)
Split(s, sep) ==
    LET i == IndexByte(s, sep)
    IN IF i = 0 THEN <<s>>
       ELSE <<SubSeq(s, 1, i-1)>> \o Split(SubSeq(s, i+1, Len(s)), sep)

RECURSIVE JoinSlash(_)
JoinSlash(elems) ==
    IF elems = <<>> THEN <<>>
    ELSE IF Len(elems) = 1 THEN Head(elems)
    ELSE Head(elems) \o <<"/">> \o JoinSlash(Tail(elems))

\* slices.Index: 0-based index of the first element equal to v, -1 if none
RECURSIVE SlicesIndexFrom(_, _, _)
SlicesIndexFrom(list, v, i) ==
    IF i > Len(list) THEN -1
    ELSE IF list[i] = v THEN i - 1
    ELSE SlicesIndexFrom(list, v, i + 1)

SlicesIndexPrefix(list, v) ==
    IF \E i \in 1..Len(list) :
          Len(list[i]) > 0 /\ Len(v) <= Len(list[i]) /\ SubSeq(list[i], 1, Len(v)) = v
    THEN 0 ELSE -1

SlicesIndex(list, v) == SlicesIndexFrom(list, v, 1)

\* strconv.Unquote on a string literal; the error is dropped by the caller,
\* which then sees the zero value ""
DoubleQuote == "\""
\* stands for the back quote that delimits a raw string literal
RawQuote == "'"

Unquote(lit) ==
    IF Len(lit) >= 2 /\ lit[1] = lit[Len(lit)] /\ lit[1] \in {DoubleQuote, RawQuote}
    THEN SubSeq(lit, 2, Len(lit) - 1)
    ELSE <<>>

Quote(s) == <<DoubleQuote>> \o s \o <<DoubleQuote>>

\* path.Ext: the suffix starting at the last dot of the last path element
RECURSIVE ExtFrom(_, _)
ExtFrom(p, i) ==
    IF i < 1 \/ p[i] = "/" THEN <<>>
    ELSE IF p[i] = "." THEN SubSeq(p, i, Len(p))
    ELSE ExtFrom(p, i - 1)

ExtAlwaysGo(p) == <<".", "g", "o">>

Ext(p) == ExtFrom(p, Len(p))

GoExt == <<".", "g", "o">>

(* ------------------------- the import allow-list ---------------------- *)
\* assets/import_allow_list.txt: one import path per line
permittedPackagesString == <<"f", "\n", "n", "/", "u", "\n">>

permittedPackages == Split(permittedPackagesString, "\n")

(* ----------------------------- source text ---------------------------- *)
\* A source text is a sequence of tokens; a token is a kind and its text.
Tok(k, v) == [k |-> k, v |-> v]
KwPackage == Tok("package", <<>>)
KwImport == Tok("import", <<>>)
KwFunc == Tok("func", <<>>)
Junk == Tok("illegal", <<>>)
StrLit(path) == Tok("string", Quote(path))

\* parser.ParseFile(..., parser.ImportsOnly): the package clause, then the
\* import declarations; nothing after the import section is parsed.
RECURSIVE ParseImports(_, _, _)
ParseImports(src, i, acc) ==
    IF i > Len(src) \/ src[i] # KwImport THEN [ok |-> TRUE, imports |-> acc]
    ELSE IF i + 1 > Len(src) \/ src[i+1].k # "string"
         THEN [ok |-> FALSE, imports |-> acc]
    ELSE IF Unquote(src[i+1].v) = <<>>
         THEN [ok |-> FALSE, imports |-> acc]
    ELSE ParseImports(src, i + 2, Append(acc, src[i+1].v))

ParseFile(src) ==
    IF Len(src) = 0 \/ src[1] # KwPackage THEN [ok |-> FALSE, imports |-> <<>>]
    ELSE ParseImports(src, 2, <<>>)

(* ------------------------------- errors ------------------------------- *)
\* A Go error is nil or carries a message; a message is a sequence of pieces.
NoErr == [isNil |-> TRUE, msg |-> <<>>]
Err(m) == [isNil |-> FALSE, msg |-> m]

RECURSIVE CheckSpecs(_, _)
CheckSpecs(specs, i) ==
    IF i > Len(specs) THEN NoErr
    ELSE LET path == Unquote(specs[i])
         IN IF SlicesIndex(permittedPackages, path) >= 0
            THEN CheckSpecs(specs, i + 1)
            ELSE Err(<<"importing ">> \o Quote(path) \o <<" is not permitted on this site">>)

checkImports(mainGo) ==
    LET file == ParseFile(mainGo)
    IN IF ~file.ok THEN Err(<<"failed to parse main.go: ", "syntax error">>)
       ELSE CheckSpecs(file.imports, 1)

(* ------------------------------ file paths ---------------------------- *)
\* fs.ValidPath: "." or slash-separated elements none of which is empty,
\* "." or ".."
ValidPathLoose(name) ==
    \/ name = <<".">>
    \/ \A e \in Range(Split(name, "/")) : e # <<>> /\ e # <<".">>

ValidPath(name) ==
    \/ name = <<".">>
    \/ \A e \in Range(Split(name, "/")) :
          e # <<>> /\ e # <<".">> /\ e # <<".", ".">>

\* filepath.Clean on a list of path elements below the root
RECURSIVE CleanElems(_, _)
CleanElems(elems, acc) ==
    IF elems = <<>> THEN acc
    ELSE LET e == Head(elems)
         IN IF e = <<>> \/ e = <<".">> THEN CleanElems(Tail(elems), acc)
            ELSE IF e = <<".", ".">>
                 THEN CleanElems(Tail(elems),
                                 IF acc = <<>> THEN acc ELSE SubSeq(acc, 1, Len(acc) - 1))
            ELSE CleanElems(Tail(elems), Append(acc, e))

\* filepath.Join(dir, name), as the list of elements of the cleaned path
JoinPath(dir, name) == CleanElems(dir \o Split(name, "/"), <<>>)

IsUnder(p, dir) == Len(p) >= Len(dir) /\ SubSeq(p, 1, Len(dir)) = dir

\* the text of an absolute path
PathText(p) == <<"/">> \o JoinSlash(p)

\* os.TempDir()
TempDir == << <<"t", "m", "p">> >>

\* the directory os.MkdirTemp names with its d-th random suffix
WorkDir(d) == Append(TempDir, <<ToString(d)>>)

NoDir == <<>>

\* the path of a txtar file inside the archive's file system
NodePath(name) == IF name = <<".">> THEN <<>> ELSE Split(name, "/")

\* txtar.FS insert: add a node, creating its missing parent directories;
\* a path that is already a node is a duplicate
RECURSIVE InsertNode(_, _, _)
InsertNode(nodes, p, isDir) ==
    IF p \in nodes.files \cup nodes.dirs THEN [ok |-> FALSE, nodes |-> nodes]
    ELSE LET added == IF isDir THEN [nodes EXCEPT !.dirs = @ \cup {p}]
                               ELSE [nodes EXCEPT !.files = @ \cup {p}]
             parent == SubSeq(p, 1, Len(p) - 1)
         IN IF parent \in added.dirs THEN [ok |-> TRUE, nodes |-> added]
            ELSE InsertNode(added, parent, TRUE)

RECURSIVE InitFiles(_, _, _)
InitFiles(files, i, nodes) ==
    IF i > Len(files) THEN NoErr
    ELSE IF ~ValidPath(files[i].Name)
         THEN Err(<<"cannot create fs.FS from txtar.Archive: file ">>
                  \o Quote(files[i].Name) \o <<" is an invalid path">>)
    ELSE LET r == InsertNode(nodes, NodePath(files[i].Name), FALSE)
         IN IF ~r.ok
            THEN Err(<<"cannot create fs.FS from txtar.Archive: duplicate path">>)
            ELSE InitFiles(files, i + 1, r.nodes)

\* txtar.FS(archive): the error it returns, NoErr when the file system is built
TxtarFSLax(archive) == NoErr

TxtarFS(archive) == InitFiles(archive, 1, [files |-> {}, dirs |-> {<<>>}])

(* ------------------------------ the form ------------------------------ *)
\* url.Values.Get: the first value of the key, "" when there is none
FormGet(fields, key) ==
    IF key \in DOMAIN fields /\ Len(fields[key]) > 0 THEN fields[key][1] ELSE <<>>

readArchive(form) ==
    [i \in 1..Len(form.filename) |->
        [Name |-> form.filename[i], Data |-> FormGet(form.fields, form.filename[i])]]

\* strconv.Atoi on short decimal strings: an optional sign, then digits
DigitVal(c) == CASE c = "0" -> 0 [] c = "1" -> 1 [] c = "2" -> 2 [] c = "3" -> 3
                 [] c = "4" -> 4 [] c = "5" -> 5 [] c = "6" -> 6 [] c = "7" -> 7
                 [] c = "8" -> 8 [] c = "9" -> 9 [] OTHER -> -1

RECURSIVE DigitsVal(_, _)
DigitsVal(s, acc) ==
    IF s = <<>> THEN acc ELSE DigitsVal(Tail(s), 10 * acc + DigitVal(Head(s)))

AtoiUnsigned(s) ==
    LET signed == Len(s) > 0 /\ s[1] \in {"+", "-"}
        digits == IF signed THEN Tail(s) ELSE s
    IN IF digits = <<>> \/ \E i \in 1..Len(digits) : DigitVal(digits[i]) < 0
       THEN [ok |-> FALSE, n |-> 0]
       ELSE [ok |-> TRUE, n |-> DigitsVal(digits, 0)]

Atoi(s) ==
    LET signed == Len(s) > 0 /\ s[1] \in {"+", "-"}
        digits == IF signed THEN Tail(s) ELSE s
    IN IF digits = <<>> \/ \E i \in 1..Len(digits) : DigitVal(digits[i]) < 0
       THEN [ok |-> FALSE, n |-> 0]
       ELSE [ok |-> TRUE,
             n |-> IF signed /\ s[1] = "-" THEN 0 - DigitsVal(digits, 0)
                   ELSE DigitsVal(digits, 0)]

\* url.Parse, reduced to the scheme and the host it extracts
UrlParse(s) ==
    LET i == IndexByte(s, ":")
        rest == SubSeq(s, i + 1, Len(s))
        hasHost == Len(rest) >= 2 /\ rest[1] = "/" /\ rest[2] = "/"
        afterSlashes == SubSeq(rest, 3, Len(rest))
        j == IndexByte(afterSlashes, "/")
    IN IF \E k \in 1..Len(s) : s[k] = "\n" THEN [ok |-> FALSE, Scheme |-> <<>>, Host |-> <<>>]
       ELSE IF i = 1 THEN [ok |-> FALSE, Scheme |-> <<>>, Host |-> <<>>]
       ELSE IF i = 0 THEN [ok |-> TRUE, Scheme |-> <<>>, Host |-> <<>>]
       ELSE [ok |-> TRUE, Scheme |-> SubSeq(s, 1, i - 1),
             Host |-> IF ~hasHost THEN <<>>
                      ELSE IF j = 0 THEN afterSlashes
                      ELSE SubSeq(afterSlashes, 1, j - 1)]


(* ------------------------------- inputs ------------------------------- *)
Reqs == 1..NumReqs

NameMain == <<"m", ".", "g", "o">>
NameText == <<"a", ".", "t">>
NameSub == <<"d", "/", "m", ".", "g", "o">>
NameUp == <<".", ".", "/", "x", ".", "g", "o">>
NameAbs == <<"/", "x", ".", "g", "o">>
NameDir == <<"d">>
OutputName == <<"m", "a", "i", "n", ".", "w", "a", "s", "m">>

PathF == <<"f">>
PathNU == <<"n", "/", "u">>
PathN == <<"n">>
PathNUX == <<"n", "/", "u", "/", "x">>
PathU == <<"u">>
ImportPaths == {PathF, PathNU, PathN, PathNUX, PathU}

\* a well-formed source importing the given paths, in order
SrcWith(paths) ==
    <<KwPackage>> \o Flatten([i \in 1..Len(paths) |-> <<KwImport, StrLit(paths[i])>>])
                  \o <<KwFunc>>

ImportSeqs == UNION {[1..n -> ImportPaths] : n \in 0..MaxImports}

Sources ==
    {SrcWith(ps) : ps \in ImportSeqs}
    \cup { <<>>,
           <<Junk>>,
           <<KwPackage, KwImport, KwFunc>>,
           <<KwPackage, KwImport, StrLit(<<>>)>>,
           <<KwPackage, KwImport, Tok("string", <<RawQuote, "f", RawQuote>>), KwFunc>>,
           <<KwPackage, KwImport, Tok("string", <<RawQuote, "n", RawQuote>>), KwFunc>>,
           <<KwPackage, KwImport, StrLit(PathF), Junk>>,
           <<KwPackage, KwImport, StrLit(PathN), KwImport>> }

SrcGood == SrcWith(<<PathF>>)
SrcForbidden == SrcWith(<<PathN>>)

\* one submitted file: its name in the filename list and, when present, the
\* form field of that name
Sub(n, d, p) == [name |-> n, data |-> d, present |-> p]

RichSubs == {Sub(NameMain, d, TRUE) : d \in Sources}

PlainSubs ==
    { Sub(NameText, SrcForbidden, TRUE),
      Sub(NameMain, SrcForbidden, TRUE),
      Sub(NameSub, SrcForbidden, TRUE),
      Sub(NameSub, SrcGood, TRUE),
      Sub(NameUp, SrcGood, TRUE),
      Sub(NameAbs, SrcGood, TRUE),
      Sub(NameDir, SrcGood, TRUE),
      Sub(NameText, SrcGood, FALSE) }

Submissions ==
    {<<>>}
    \cup {<<a>> : a \in RichSubs \cup PlainSubs}
    \cup UNION { {<<a>> \o rest : a \in RichSubs \cup PlainSubs, rest \in [1..n -> PlainSubs]}
                 : n \in 1..(MaxFiles - 1) }

\* the url.Values a browser sends for a list of submitted files
FormOf(subs) ==
    [filename |-> [i \in 1..Len(subs) |-> subs[i].name],
     fields |-> [n \in {subs[i].name : i \in {j \in 1..Len(subs) : subs[j].present}} |->
                   LET mine == SelectSeq(subs, LAMBDA x : x.name = n /\ x.present)
                   IN [i \in 1..Len(mine) |-> mine[i].data]]]

RunIdQueries == { <<>>, <<"7">>, <<"-", "3">>, <<"+", "1", "2">>, <<"x">>, <<"1", "x">>, <<"-">> }

UrlGood == <<"h", ":", "/", "/", "s", "/", "p">>
UrlHeaders == { <<>>, UrlGood, <<":", "s">>, <<"h", ":", "\n">>, <<"p">> }

Targets == {"runner", "other"}

OutputTexts == {"x", "y"}
Streams == {"stdout", "stderr"}
Write(fd, text) == [fd |-> fd, text |-> text]

\* what the compiler does with the submitted files when nothing stops it:
\* the writes to its two output streams, in order, and how it ends: with
\* success, with a non-zero status, never, or (any) with either status, as
\* when the outcome depends on the machine and not on the files
Compiler(out, exit) == [out |-> out, exit |-> exit]

Compilers ==
    {Compiler(o, x) :
        o \in UNION {[1..n -> {Write(fd, t) : fd \in Streams, t \in OutputTexts}] : n \in 0..MaxOut},
        x \in {"ok", "fail", "hang"}}

CompilerOK == Compiler(<<>>, "ok")
CompilerFail == Compiler(<<Write("stderr", "x")>>, "fail")
CompilerAny == Compiler(<<Write("stderr", "x")>>, "any")

Input(subs, q, u, t, c) ==
    [form |-> FormOf(subs), runid |-> q, currentURL |-> u, hxTarget |-> t, compiler |-> c]

GoodSubs == <<Sub(NameMain, SrcGood, TRUE)>>

\* requests of the sequential specification: every form with the default
\* request parameters, and every request parameter with the default form
RichInputs ==
    {Input(subs, <<>>, UrlGood, "runner", c) : subs \in Submissions, c \in {CompilerOK, CompilerFail}}
    \cup {Input(GoodSubs, q, u, t, CompilerOK) : q \in RunIdQueries, u \in UrlHeaders, t \in Targets}
    \cup {Input(GoodSubs, <<"7">>, UrlGood, t, c) : t \in Targets, c \in Compilers}

\* requests of the concurrent specification
ConcInputs ==
    { Input(GoodSubs, <<>>, UrlGood, "other", CompilerAny),
      Input(<<Sub(NameMain, SrcForbidden, TRUE)>>, <<"7">>, UrlGood, "other", CompilerOK) }

\* requests of the specification with fairness: every compiler behaviour
FairInputs ==
    {Input(GoodSubs, <<"7">>, UrlGood, t, c) : t \in Targets, c \in Compilers}
    \cup {Input(<<Sub(NameMain, SrcForbidden, TRUE)>>, <<>>, UrlGood, "other", CompilerOK),
          Input(GoodSubs, <<"x">>, UrlGood, "other", CompilerOK)}

NoInput == Input(<<>>, <<>>, <<>>, "other", CompilerOK)

(* ------------------------------- state -------------------------------- *)
VARIABLES
    input,         \* the request: form, run-id value, hx-current-url, HX-Target,
                   \* and what the compiler does with the submitted files
    pc,            \* where the handler of each request stands
    archive,       \* the txtar archive readArchive built
    runID,         \* the run identifier of the request
    currentURL,    \* the parsed hx-current-url header
    ctx,           \* the request's timeout context
    tmp,           \* the working directory of the build attempt
    proc,          \* the compiler subprocess
    emitted,       \* what the subprocess wrote, in order, with the stream
    outputBuffer,  \* the buffer wired to the subprocess's stdout and stderr
    ret,           \* what buildWASM returned
    outcome,       \* the exit path buildWASM took
    spawned,       \* how many subprocesses the request started
    resp,          \* the responses written to the client
    disk           \* the temporary-storage area: a set of files and directories

vars == <<input, pc, archive, runID, currentURL, ctx, tmp, proc, emitted,
          outputBuffer, ret, outcome, spawned, resp, disk>>

BuildPcs == {"mkdir", "screen", "copy", "start", "wait", "read", "cleanup"}

Done(r) == pc[r] = "done"

InBuild(r) == pc[r] \in BuildPcs

Return(val, err) == [val |-> val, err |-> err]
NoReturn == Return(<<>>, NoErr)

DirEntry(p) == [path |-> p, dir |-> TRUE, data |-> <<>>]
FileEntry(p, d) == [path |-> p, dir |-> FALSE, data |-> d]

Paths(d) == {e.path : e \in d}

InitCommon ==
    /\ archive = [r \in Reqs |-> <<>>]
    /\ runID = [r \in Reqs |-> 1]
    /\ currentURL = [r \in Reqs |-> [ok |-> TRUE, Scheme |-> <<>>, Host |-> <<>>]]
    /\ ctx = [r \in Reqs |-> "none"]
    /\ tmp = [r \in Reqs |-> NoDir]
    /\ proc = [r \in Reqs |-> "none"]
    /\ emitted = [r \in Reqs |-> <<>>]
    /\ outputBuffer = [r \in Reqs |-> <<>>]
    /\ ret = [r \in Reqs |-> NoReturn]
    /\ outcome = [r \in Reqs |-> "none"]
    /\ spawned = [r \in Reqs |-> 0]
    /\ resp = [r \in Reqs |-> <<>>]
    /\ disk = {}

\* one request at a time, over every input
Init ==
    /\ \E i \in RichInputs : input = [r \in Reqs |-> IF r = 1 THEN i ELSE NoInput]
    /\ pc = [r \in Reqs |-> IF r = 1 THEN "accept" ELSE "off"]
    /\ InitCommon

\* one request, over every behaviour of the compiler
InitFair ==
    /\ \E i \in FairInputs : input = [r \in Reqs |-> IF r = 1 THEN i ELSE NoInput]
    /\ pc = [r \in Reqs |-> IF r = 1 THEN "accept" ELSE "off"]
    /\ InitCommon

\* NumReqs concurrent requests
InitConc ==
    /\ input \in [Reqs -> ConcInputs]
    /\ pc = [r \in Reqs |-> "accept"]
    /\ InitCommon


(* ----------------------------- operations ----------------------------- *)
\* http.Error and the renderer, as the response they write
HttpError(text, status) == [status |-> status, template |-> "plain", data |-> [text |-> text]]
RenderHTML(tmpl, status, data) == [status |-> status, template |-> tmpl, data |-> data]

\* the run-id form value: 1 when empty, else strconv.Atoi
ParseRunIDLenient(q) == IF q = <<>> \/ ~Atoi(q).ok THEN [ok |-> TRUE, n |-> 1] ELSE Atoi(q)

ParseRunID(q) == IF q = <<>> THEN [ok |-> TRUE, n |-> 1] ELSE Atoi(q)

\* fmt.Errorf("failed in %s: %w", file.Name, err)
ScreenErrorBare(name, err) == err

ScreenError(name, err) == Err(<<"failed in ">> \o name \o <<": ">> \o err.msg)

\* the screening loop of buildWASM over the archive's files
RECURSIVE ScreenFrom(_, _)
ScreenFrom(files, i) ==
    IF i > Len(files) THEN NoErr
    ELSE IF Ext(files[i].Name) # GoExt THEN ScreenFrom(files, i + 1)
    ELSE LET err == checkImports(files[i].Data)
         IN IF ~err.isNil
            THEN ScreenError(files[i].Name, err)
            ELSE ScreenFrom(files, i + 1)

ScreenFirstOnly(files) ==
    IF Len(files) = 0 THEN NoErr ELSE ScreenFrom(SubSeq(files, 1, 1), 1)

ScreenFiles(files) == ScreenFrom(files, 1)

\* the names os.MkdirTemp can give the new directory: those not on disk
AnyDirs(d) == 1..MaxDirs

FreeDirs(d) == {k \in 1..MaxDirs : WorkDir(k) \notin Paths(d)}

\* the name os.MkdirTemp gives: the names are interchangeable, the first of
\* the candidates stands for any of them
FirstOf(S) == {k \in S : \A j \in S : k <= j}

\* what os.CopyFS creates under dir for the files numbered in S: the file
\* and the directories above it
CopyEntries(dir, files, S) ==
    UNION { LET p == JoinPath(dir, files[i].Name)
            IN {FileEntry(p, files[i].Data)}
               \cup {DirEntry(SubSeq(p, 1, k)) : k \in (Len(dir) + 1)..(Len(p) - 1)}
            : i \in S }

\* os.RemoveAll(dir)
RemoveEmpty(d, dir) ==
    IF \E e \in d : e.path # dir /\ IsUnder(e.path, dir) THEN d
    ELSE {e \in d : e.path # dir}

RemoveAll(d, dir) == {e \in d : ~IsUnder(e.path, dir)}

\* exec.CommandContext: the subprocess is killed once the context is done
NeverKill(c) == FALSE

KillEnabled(c) == c \in {"deadline", "canceled"}

\* errors.New(outputBuffer.String())
WrappedCompileError(buf) == Err(<<"build failed: ">> \o buf)

CompileError(buf) == Err(buf)

\* the two writers of the subprocess share one buffer
WriteOutput(buf, fd, text) == Append(buf, text)

\* base64.StdEncoding.EncodeToString
EncodeToString(bytes) == IF bytes = <<>> THEN <<>> ELSE <<"base64(">> \o bytes \o <<")">>

WasmBytes == <<"w">>
WasmFile == <<Tok("wasm", WasmBytes)>>

\* the result of the artifact read and encode steps
\* the *PathError of os.ReadFile names the file
ReadError(path) ==
    Err(<<"failed to open build file: ", "open ">> \o PathText(path) \o <<": io error">>)

ReadLeaky(path, data, failed) ==
    Return(EncodeToString(data[1].v), IF failed THEN ReadError(path) ELSE NoErr)

ReadResult(path, data, failed) ==
    IF failed THEN Return(<<>>, ReadError(path))
    ELSE Return(EncodeToString(data[1].v), NoErr)

(* ------------------------------ handleRun ----------------------------- *)
\* lines 135-161: read the form, the run id, the deadline, the calling page
HandleRunEntry(r) ==
    /\ pc[r] = "accept"
    /\ LET id == ParseRunID(input[r].runid)
           u == UrlParse(input[r].currentURL)
       IN /\ archive' = [archive EXCEPT ![r] = readArchive(input[r].form)]
          /\ IF ~id.ok
             THEN /\ resp' = [resp EXCEPT ![r] = Append(@, HttpError(<<"invalid run id">>, 400))]
                  /\ pc' = [pc EXCEPT ![r] = "done"]
                  /\ UNCHANGED <<runID, currentURL, ctx>>
             ELSE IF ~u.ok
             THEN /\ resp' = [resp EXCEPT ![r] = Append(@, HttpError(<<"failed to parse current url">>, 500))]
                  /\ pc' = [pc EXCEPT ![r] = "done"]
                  /\ runID' = [runID EXCEPT ![r] = id.n]
                  /\ ctx' = [ctx EXCEPT ![r] = "released"]
                  /\ UNCHANGED currentURL
             ELSE /\ runID' = [runID EXCEPT ![r] = id.n]
                  /\ currentURL' = [currentURL EXCEPT ![r] = u]
                  /\ ctx' = [ctx EXCEPT ![r] = "live"]
                  /\ pc' = [pc EXCEPT ![r] = "mkdir"]
                  /\ UNCHANGED resp
    /\ UNCHANGED <<input, tmp, proc, emitted, outputBuffer, ret, outcome, spawned, disk>>

\* the 30 second timer of context.WithTimeout fires
DeadlineExpire(r) ==
    /\ ctx[r] = "live"
    /\ ctx' = [ctx EXCEPT ![r] = "deadline"]
    /\ UNCHANGED <<input, pc, archive, runID, currentURL, tmp, proc, emitted,
                   outputBuffer, ret, outcome, spawned, resp, disk>>

\* the request's own context is canceled: the client went away
ParentCancel(r) ==
    /\ ctx[r] = "live"
    /\ ctx' = [ctx EXCEPT ![r] = "canceled"]
    /\ UNCHANGED <<input, pc, archive, runID, currentURL, tmp, proc, emitted,
                   outputBuffer, ret, outcome, spawned, resp, disk>>

(* ---------------- handleRun after buildWASM has returned --------------- *)
RunFailure(id, err) == [RunID |-> id, BuildLogs |-> err.msg]

Run(u, id, val, doc) ==
    [Location |-> u.Scheme \o <<":", "/", "/">> \o u.Host,
     RunID |-> id,
     BinaryBase64 |-> val,
     SourceHTMLDocument |-> doc]

\* lines 163-191: the sequences of responses handleRun can write for a
\* return of buildWASM; executing the run template can fail
ResponsesFallThrough(r, val, err) ==
    IF ~err.isNil
    THEN {<<RenderHTML("build-failure", 200, RunFailure(runID[r], err))>>}
    ELSE IF input[r].hxTarget = "runner"
    THEN { <<HttpError(<<"Internal Server Error">>, 500),
             RenderHTML("run-item", 200, Run(currentURL[r], runID[r], val, <<>>))>>,
           <<RenderHTML("run-item", 200,
                        Run(currentURL[r], runID[r], val, <<"run.html.template">>))>> }
    ELSE {<<RenderHTML("run.html.template", 200, Run(currentURL[r], runID[r], val, <<>>))>>}

Responses(r, val, err) ==
    IF ~err.isNil
    THEN {<<RenderHTML("build-failure", 200, RunFailure(runID[r], err))>>}
    ELSE IF input[r].hxTarget = "runner"
    THEN { <<HttpError(<<"Internal Server Error">>, 500)>>,
           <<RenderHTML("run-item", 200,
                        Run(currentURL[r], runID[r], val, <<"run.html.template">>))>> }
    ELSE {<<RenderHTML("run.html.template", 200, Run(currentURL[r], runID[r], val, <<>>))>>}

\* buildWASM returns (val, err) by the exit path how; handleRun answers
\* and its deferred cancel releases the context
ReturnAndRespond(r, val, err, how) ==
    /\ ret' = [ret EXCEPT ![r] = Return(val, err)]
    /\ outcome' = [outcome EXCEPT ![r] = how]
    /\ \E ws \in Responses(r, val, err) : resp' = [resp EXCEPT ![r] = @ \o ws]
    /\ pc' = [pc EXCEPT ![r] = "done"]
    /\ ctx' = [ctx EXCEPT ![r] = "released"]

(* ------------------------------ buildWASM ----------------------------- *)
\* a step of buildWASM decides the return value and runs to the deferred call
Finish(r, val, err, how) ==
    /\ ret' = [ret EXCEPT ![r] = Return(val, err)]
    /\ outcome' = [outcome EXCEPT ![r] = how]
    /\ pc' = [pc EXCEPT ![r] = "cleanup"]

\* lines 45-52: os.MkdirTemp and the deferred removal
MkdirTemp(r) ==
    /\ pc[r] = "mkdir"
    /\ \/ /\ ReturnAndRespond(r, <<>>, Err(<<"failed to create temporary directory">>), "mkdir")
          /\ UNCHANGED <<tmp, disk>>
       \/ \E k \in FirstOf(FreeDirs(disk)) :
             /\ tmp' = [tmp EXCEPT ![r] = WorkDir(k)]
             /\ disk' = disk \cup {DirEntry(WorkDir(k))}
             /\ pc' = [pc EXCEPT ![r] = "screen"]
             /\ UNCHANGED <<ret, outcome, resp, ctx>>
    /\ UNCHANGED <<input, archive, runID, currentURL, proc, emitted,
                   outputBuffer, spawned>>

\* lines 54-61: the import screening loop
Screen(r) ==
    /\ pc[r] = "screen"
    /\ LET err == ScreenFiles(archive[r])
       IN IF ~err.isNil
          THEN Finish(r, <<>>, err, "screen")
          ELSE /\ pc' = [pc EXCEPT ![r] = "copy"]
               /\ UNCHANGED <<ret, outcome>>
    /\ UNCHANGED <<input, archive, runID, currentURL, ctx, tmp, proc, emitted,
                   outputBuffer, spawned, resp, disk>>

\* lines 62-68: txtar.FS and os.CopyFS; a copy that fails has written some
\* of the files
Materialize(r) ==
    /\ pc[r] = "copy"
    /\ LET err == TxtarFS(archive[r])
           all == 1..Len(archive[r])
       IN IF ~err.isNil
          THEN /\ Finish(r, <<>>, err, "fs")
               /\ UNCHANGED disk
          ELSE \E S \in SUBSET all :
                  /\ disk' = disk \cup CopyEntries(tmp[r], archive[r], S)
                  /\ IF S = all
                     THEN /\ pc' = [pc EXCEPT ![r] = "start"]
                          /\ UNCHANGED <<ret, outcome>>
                     ELSE LET i == CHOOSE j \in all : j \notin S
                          IN Finish(r, <<>>,
                                    Err(<<"open ">> \o PathText(JoinPath(tmp[r], archive[r][i].Name))
                                        \o <<": io error">>),
                                    "copy")
    /\ UNCHANGED <<input, archive, runID, currentURL, ctx, tmp, proc, emitted,
                   outputBuffer, spawned, resp>>

\* lines 70-81, cmd.Run starting the compiler; a context that is already
\* done makes Start fail before any process exists
StartCmd(r) ==
    /\ pc[r] = "start"
    /\ IF KillEnabled(ctx[r])
       THEN /\ Finish(r, <<>>, CompileError(outputBuffer[r]), "notstarted")
            /\ UNCHANGED <<proc, spawned>>
       ELSE /\ proc' = [proc EXCEPT ![r] = "running"]
            /\ spawned' = [spawned EXCEPT ![r] = @ + 1]
            /\ pc' = [pc EXCEPT ![r] = "wait"]
            /\ UNCHANGED <<ret, outcome>>
    /\ UNCHANGED <<input, archive, runID, currentURL, ctx, tmp, emitted,
                   outputBuffer, resp, disk>>

\* the compiler writes its next output to its standard output or error
ProcWrite(r) ==
    /\ proc[r] = "running"
    /\ Len(emitted[r]) < Len(input[r].compiler.out)
    /\ LET w == input[r].compiler.out[Len(emitted[r]) + 1]
       IN /\ emitted' = [emitted EXCEPT ![r] = Append(@, w)]
          /\ outputBuffer' = [outputBuffer EXCEPT ![r] = WriteOutput(@, w.fd, w.text)]
    /\ UNCHANGED <<input, pc, archive, runID, currentURL, ctx, tmp, proc, ret,
                   outcome, spawned, resp, disk>>

\* the compiler exits on its own and cmd.Run returns (lines 81-84)
ProcExit(r) ==
    /\ proc[r] = "running"
    /\ Len(emitted[r]) = Len(input[r].compiler.out)
    /\ input[r].compiler.exit # "hang"
    /\ \/ /\ input[r].compiler.exit \in {"ok", "any"}
          /\ proc' = [proc EXCEPT ![r] = "exit0"]
          /\ disk' = disk \cup {FileEntry(JoinPath(tmp[r], OutputName), WasmFile)}
          /\ pc' = [pc EXCEPT ![r] = "read"]
          /\ UNCHANGED <<ret, outcome>>
       \/ /\ input[r].compiler.exit \in {"fail", "any"}
          /\ proc' = [proc EXCEPT ![r] = "exit1"]
          /\ Finish(r, <<>>, CompileError(outputBuffer[r]), "compile")
          /\ UNCHANGED disk
    /\ UNCHANGED <<input, archive, runID, currentURL, ctx, tmp, emitted,
                   outputBuffer, spawned, resp>>

\* the context is done while the compiler runs: it is killed and cmd.Run
\* returns its error (lines 81-84)
Kill(r) ==
    /\ proc[r] = "running"
    /\ KillEnabled(ctx[r])
    /\ proc' = [proc EXCEPT ![r] = "killed"]
    /\ Finish(r, <<>>, CompileError(outputBuffer[r]), "killed")
    /\ UNCHANGED <<input, archive, runID, currentURL, ctx, tmp, emitted,
                   outputBuffer, spawned, resp, disk>>

\* lines 86-91: os.ReadFile of the output and its encoding
ReadArtifact(r) ==
    /\ pc[r] = "read"
    /\ LET out == {e \in disk : e.path = JoinPath(tmp[r], OutputName) /\ ~e.dir}
       IN \E failed \in BOOLEAN :
             /\ (out = {}) => failed
             /\ LET data == IF out = {} THEN WasmFile ELSE (CHOOSE e \in out : TRUE).data
                    res == ReadResult(JoinPath(tmp[r], OutputName), data, failed)
                IN Finish(r, res.val, res.err, IF failed THEN "read" ELSE "ok")
    /\ UNCHANGED <<input, archive, runID, currentURL, ctx, tmp, proc, emitted,
                   outputBuffer, spawned, resp, disk>>

\* lines 50-52 and 163-191: the deferred os.RemoveAll(tmp) runs, buildWASM
\* returns and handleRun answers
Cleanup(r) ==
    /\ pc[r] = "cleanup"
    /\ disk' = RemoveAll(disk, tmp[r])
    /\ tmp' = [tmp EXCEPT ![r] = NoDir]
    /\ outputBuffer' = [outputBuffer EXCEPT ![r] = <<>>]
    /\ ReturnAndRespond(r, ret[r].val, ret[r].err, outcome[r])
    /\ UNCHANGED <<input, archive, runID, currentURL, proc, emitted, spawned>>

(* ---------------------------- handleDownload -------------------------- *)
\* a zip entry holds its data deflated
Deflate(data) == [method |-> "deflate", of |-> data]
Inflate(body) == body.of

ZipEntry(name, dir, data) == [name |-> name, dir |-> dir, body |-> Deflate(data)]

\* zip.Writer.AddFS has two behaviours, by toolchain release: it adds the
\* regular files only, or also a header "dir/" for every directory
ZipToolchains == BOOLEAN

\* the headers zip.Writer.AddFS writes for the file system of the archive
ZipEntriesBase(files, withDirs) ==
    {ZipEntry(LET p == NodePath(files[i].Name) IN p[Len(p)], FALSE, files[i].Data)
        : i \in 1..Len(files)}

ZipEntries(files, withDirs) ==
    {ZipEntry(files[i].Name, FALSE, files[i].Data) : i \in 1..Len(files)}
    \cup (IF withDirs
          THEN UNION { LET p == NodePath(files[i].Name)
                       IN {ZipEntry(JoinSlash(SubSeq(p, 1, k)) \o <<"/">>, TRUE, <<>>)
                             : k \in 1..(Len(p) - 1)}
                       : i \in 1..Len(files) }
          ELSE {})

\* lines 94-119: the whole download handler
HandleDownload(r) ==
    /\ pc[r] = "accept"
    /\ LET files == readArchive(input[r].form)
           err == TxtarFS(files)
       IN /\ archive' = [archive EXCEPT ![r] = files]
          /\ IF ~err.isNil
             THEN resp' = [resp EXCEPT ![r] = Append(@, HttpError(err.msg, 400))]
             ELSE \E withDirs \in ZipToolchains :
                     resp' = [resp EXCEPT ![r] =
                                Append(@, [status |-> 200, template |-> "zip",
                                           data |-> [entries |-> ZipEntries(files, withDirs)]])]
    /\ pc' = [pc EXCEPT ![r] = "done"]
    /\ UNCHANGED <<input, runID, currentURL, ctx, tmp, proc, emitted,
                   outputBuffer, ret, outcome, spawned, disk>>

NextDownload == \E r \in Reqs : HandleDownload(r)

SpecDownload == Init /\ [][NextDownload]_vars

Next ==
    \E r \in Reqs :
        \/ HandleRunEntry(r)
        \/ DeadlineExpire(r)
        \/ ParentCancel(r)
        \/ MkdirTemp(r)
        \/ Screen(r)
        \/ Materialize(r)
        \/ StartCmd(r)
        \/ ProcWrite(r)
        \/ ProcExit(r)
        \/ Kill(r)
        \/ ReadArtifact(r)
        \/ Cleanup(r)

Spec == Init /\ [][Next]_vars

SpecConc == InitConc /\ [][Next]_vars

\* the scheduler runs every handler step, the deadline timer fires, and a
\* subprocess whose context is done is killed; nothing makes a compiler exit
\* or a client go away
Fairness ==
    \A r \in Reqs :
        /\ WF_vars(HandleRunEntry(r))
        /\ WF_vars(DeadlineExpire(r))
        /\ WF_vars(MkdirTemp(r))
        /\ WF_vars(Screen(r))
        /\ WF_vars(Materialize(r))
        /\ WF_vars(StartCmd(r))
        /\ WF_vars(Kill(r))
        /\ WF_vars(ReadArtifact(r))
        /\ WF_vars(Cleanup(r))

SpecFair == InitFair /\ [][Next]_vars /\ Fairness

TypeOK ==
    /\ pc \in [Reqs -> {"off", "accept", "done"} \cup BuildPcs]
    /\ ctx \in [Reqs -> {"none", "live", "deadline", "canceled", "released"}]
    /\ proc \in [Reqs -> {"none", "running", "exit0", "exit1", "killed"}]
    /\ \A r \in Reqs : Len(resp[r]) <= 1 /\ spawned[r] \in 0..1

(* ------------------------------ properties ---------------------------- *)
\* the entries of the allow-list: the maximal newline-free pieces of the text
IsEntry(p) ==
    /\ "\n" \notin Range(p)
    /\ \E i \in 0..Len(permittedPackagesString) :
          /\ i = 0 \/ permittedPackagesString[i] = "\n"
          /\ i + Len(p) <= Len(permittedPackagesString)
          /\ SubSeq(permittedPackagesString, i + 1, i + Len(p)) = p
          /\ \/ i + Len(p) = Len(permittedPackagesString)
             \/ permittedPackagesString[i + Len(p) + 1] = "\n"

\* the paths a source text imports: the string after each import keyword of
\* the import section, without its quotes
ImportedPaths(src) ==
    { SubSeq(src[k+1].v, 2, Len(src[k+1].v) - 1) :
        k \in { j \in 2..(Len(src) - 1) :
                  /\ src[1] = KwPackage
                  /\ src[j] = KwImport
                  /\ src[j+1].k = "string"
                  /\ \A m \in 2..(j-1) : src[m] = KwImport \/ src[m].k = "string" } }

ImportsForbidden(file) ==
    /\ Ext(file.Name) = GoExt
    /\ \E p \in ImportedPaths(file.Data) : ~IsEntry(p)

IsRunFailure(r) == Len(resp[r]) = 1 /\ resp[r][1].template = "build-failure"

\* C1: when some .go file of the archive imports a path that is not in the
\* allow-list, no compiler subprocess is ever started for the request and the
\* build attempt, once it has returned, has returned an error.
C1_RejectedBeforeSpawn ==
    \A r \in Reqs :
        (\E i \in 1..Len(archive[r]) : ImportsForbidden(archive[r][i]))
            => /\ spawned[r] = 0
               /\ proc[r] = "none"
               /\ outcome[r] # "none" => ~ret[r].err.isNil /\ ret[r].val = <<>>

\* the rejected import sits in the second file, after a file that passes
C1_Witness ==
    \E r \in Reqs :
        /\ Done(r) /\ outcome[r] = "screen" /\ spawned[r] = 0
        /\ Len(archive[r]) = 2
        /\ ~ImportsForbidden(archive[r][1])
        /\ Ext(archive[r][1].Name) = GoExt
        /\ ImportsForbidden(archive[r][2])

\* C2: at the step where a build attempt that created a working directory
\* returns, nothing is left on disk at or below that directory, whatever the
\* exit path.
C2_RemovedAtReturn ==
    [][\A r \in Reqs :
          (pc[r] \in BuildPcs /\ pc'[r] \notin BuildPcs /\ tmp[r] # NoDir)
              => \A e \in disk' : ~IsUnder(e.path, tmp[r])]_vars

\* a canceled attempt has returned, and its files and directory are gone
C2_Witness ==
    \E r \in Reqs :
        /\ Done(r) /\ outcome[r] = "killed"
        /\ Len(archive[r]) > 0
        /\ disk = {}

\* C3: a source whose import section parses is accepted by checkImports
\* exactly when every path it imports is, as a whole string, an entry of the
\* allow-list.
C3_ExactMatch ==
    \A r \in Reqs : \A i \in 1..Len(archive[r]) :
        LET src == archive[r][i].Data
        IN ParseFile(src).ok =>
              (checkImports(src).isNil <=> \A p \in ImportedPaths(src) : IsEntry(p))

\* a file importing an entry and a proper prefix of another entry was screened
\* and rejected
C3_Witness ==
    \E r \in Reqs :
        /\ Done(r) /\ outcome[r] = "screen"
        /\ Len(archive[r]) = 1
        /\ archive[r][1].Data = SrcWith(<<PathF, PathN>>)
        /\ IsEntry(PathNU) /\ ~IsEntry(PathN)

\* C4: the failure of an attempt whose compiler was killed at the deadline
\* differs in its diagnostic text from the failure of an attempt whose compiler
\* exited non-zero on its own.
C4_CancellationDistinct ==
    \A r1, r2 \in Reqs :
        (Done(r1) /\ Done(r2) /\ outcome[r1] = "killed" /\ outcome[r2] = "compile")
            => resp[r1][1].data.BuildLogs # resp[r2][1].data.BuildLogs

Merged(r) == [i \in 1..Len(emitted[r]) |-> emitted[r][i].text]

\* C6: when the compiler exits non-zero the one response is the build-failure
\* rendering with status 200, the request's run identifier, and as diagnostic
\* text exactly what the compiler wrote to stdout and stderr, in order.
C6_RawCompilerOutput ==
    \A r \in Reqs :
        (Done(r) /\ outcome[r] = "compile")
            => resp[r] = << [status |-> 200, template |-> "build-failure",
                             data |-> [RunID |-> runID[r], BuildLogs |-> Merged(r)]] >>

\* the compiler wrote to both streams before exiting non-zero
C6_Witness ==
    \E r \in Reqs :
        /\ Done(r) /\ outcome[r] = "compile" /\ runID[r] = 7
        /\ {emitted[r][i].fd : i \in 1..Len(emitted[r])} = Streams

\* C7: a build attempt that fails for an infrastructure error is answered with
\* status 500 and a plain message.
C7_InfraIs500 ==
    \A r \in Reqs :
        (Done(r) /\ outcome[r] \in {"mkdir", "copy", "read"})
            => /\ Len(resp[r]) = 1
               /\ resp[r][1].status = 500
               /\ resp[r][1].template = "plain"

\* C8: a returned build attempt carries an encoded artifact or an error, never
\* both and never neither, and carries the artifact only after the compiler
\* exited with success; a failure is rendered exactly for an error return.
C8_ExactlyOneOutcome ==
    \A r \in Reqs :
        outcome[r] # "none" =>
            /\ (ret[r].val # <<>>) <=> ret[r].err.isNil
            /\ ret[r].err.isNil => proc[r] = "exit0" /\ ret[r].val = EncodeToString(WasmBytes)
            /\ Done(r) => (IsRunFailure(r) <=> ~ret[r].err.isNil)

\* the compiler succeeded but the artifact could not be read: a failure only
C8_Witness ==
    \E r \in Reqs :
        /\ Done(r) /\ outcome[r] = "read" /\ proc[r] = "exit0"
        /\ ret[r].val = <<>> /\ IsRunFailure(r)

\* the request that takes the step
Acts(r) == pc'[r] # pc[r] \/ proc'[r] # proc[r]

Changed == (disk' \ disk) \cup (disk \ disk')

\* C9: two attempts in progress never have the same working directory, and a
\* step never creates or removes anything at or below the working directory of
\* an attempt other than the one taking the step.
C9_DisjointDirs ==
    /\ [](\A r1, r2 \in Reqs :
            (r1 # r2 /\ tmp[r1] # NoDir /\ tmp[r2] # NoDir) => tmp[r1] # tmp[r2])
    /\ [][\A e \in Changed : \A r \in Reqs :
            (tmp[r] # NoDir /\ IsUnder(e.path, tmp[r])) => Acts(r)]_vars

\* two compilers run at once, each in its own directory
C9_Witness ==
    \E r1, r2 \in Reqs :
        /\ r1 # r2
        /\ proc[r1] = "running" /\ proc[r2] = "running"
        /\ tmp[r1] # NoDir /\ tmp[r2] # NoDir

\* C10: whatever a step creates or removes lies at or below the working
\* directory that the attempt taking the step created.
C10_OnlyOwnDir ==
    [][\A e \in Changed : \E r \in Reqs :
          /\ Acts(r)
          /\ IsUnder(e.path, IF tmp[r] # NoDir THEN tmp[r] ELSE tmp'[r])
          /\ Len(IF tmp[r] # NoDir THEN tmp[r] ELSE tmp'[r]) = Len(TempDir) + 1]_vars

\* an archive with a file name that climbs out of the directory was handed to
\* the materialization step
C10_Witness ==
    \E r \in Reqs :
        /\ Done(r) /\ outcome[r] = "fs"
        /\ \E i \in 1..Len(archive[r]) : archive[r][i].Name = NameUp

\* a run-id value that is a decimal integer: an optional sign, then digits
Digits == {"0", "1", "2", "3", "4", "5", "6", "7", "8", "9"}

WellFormedInt(q) ==
    LET body == IF Len(q) > 0 /\ q[1] \in {"+", "-"} THEN Tail(q) ELSE q
    IN Len(body) > 0 /\ \A i \in 1..Len(body) : body[i] \in Digits

\* the hx-current-url values url.Parse refuses: a control character, or a
\* colon with no scheme before it
BadOrigin(u) ==
    \/ \E i \in 1..Len(u) : u[i] = "\n"
    \/ Len(u) > 0 /\ u[1] = ":"

NeverBuilt(r) ==
    /\ outcome[r] = "none" /\ ret[r] = NoReturn
    /\ tmp[r] = NoDir /\ spawned[r] = 0 /\ proc[r] = "none"
    /\ pc[r] \notin BuildPcs

\* C11: a request with a malformed, non-empty run id is answered with status
\* 400; a request whose run id is accepted and whose calling-page header does
\* not parse is answered with status 500; neither ever enters buildWASM: no
\* directory is created and no subprocess started.
C11_ClientErrors ==
    \A r \in Reqs :
        LET q == input[r].runid
            u == input[r].currentURL
            badId == q # <<>> /\ ~WellFormedInt(q)
        IN /\ (badId \/ BadOrigin(u)) => NeverBuilt(r) /\ disk = {}
           /\ (Done(r) /\ badId) => resp[r] = <<HttpError(<<"invalid run id">>, 400)>>
           /\ (Done(r) /\ ~badId /\ BadOrigin(u))
                 => resp[r] = <<HttpError(<<"failed to parse current url">>, 500)>>

\* a malformed run id has been answered with 400
C11_Witness ==
    \E r \in Reqs :
        /\ Done(r) /\ input[r].runid = <<"1", "x">>
        /\ Len(resp[r]) = 1 /\ resp[r][1].status = 400
        /\ NeverBuilt(r)

\* the decimal value of a string of digits, from its last digit
RECURSIVE DecValue(_)
DecValue(ds) ==
    IF ds = <<>> THEN 0
    ELSE 10 * DecValue(SubSeq(ds, 1, Len(ds) - 1))
         + CHOOSE n \in 0..9 : ToString(n) = ds[Len(ds)]

IntValue(q) ==
    IF q[1] = "-" THEN 0 - DecValue(Tail(q))
    ELSE IF q[1] = "+" THEN DecValue(Tail(q))
    ELSE DecValue(q)

CarriesRunID(w) == w.template \in {"build-failure", "run-item", "run.html.template"}

\* C12: the run identifier in the data of a response is the integer the
\* run-id value denotes when it is a well-formed integer and 1 when it is
\* empty; no response to a malformed value carries a run identifier.
C12_RunIDEcho ==
    \A r \in Reqs : \A i \in 1..Len(resp[r]) :
        LET q == input[r].runid
        IN CarriesRunID(resp[r][i]) =>
              /\ q = <<>> \/ WellFormedInt(q)
              /\ resp[r][i].data.RunID = IF q = <<>> THEN 1 ELSE IntValue(q)

\* a negative run id is echoed in a response
C12_Witness ==
    \E r \in Reqs :
        /\ Done(r) /\ input[r].runid = <<"-", "3">>
        /\ Len(resp[r]) = 1 /\ CarriesRunID(resp[r][1])
        /\ resp[r][1].data.RunID = -3

\* C13: the archive readArchive builds has one file per distinct submitted
\* name, no two files with the same name, in submission order, each with the
\* value of the form field of its name (empty when there is none).
C13_OnePerName ==
    \A r \in Reqs :
        pc[r] \notin {"off", "accept"} =>
            LET names == input[r].form.filename
                fields == input[r].form.fields
            IN /\ Len(archive[r]) = Cardinality(Range(names))
               /\ \A i, j \in 1..Len(archive[r]) :
                     i # j => archive[r][i].Name # archive[r][j].Name
               /\ \A i, j \in 1..Len(archive[r]) :
                     i < j => \E a, b \in 1..Len(names) :
                                 /\ a < b
                                 /\ names[a] = archive[r][i].Name
                                 /\ names[b] = archive[r][j].Name
               /\ \A i \in 1..Len(archive[r]) :
                     archive[r][i].Data =
                        IF archive[r][i].Name \in DOMAIN fields
                        THEN fields[archive[r][i].Name][1] ELSE <<>>

\* a name that is a relative path: no empty, "." or ".." element
RelativeName(n) ==
    \A e \in Range(Split(n, "/")) : e # <<>> /\ e # <<".">> /\ e # <<".", ".">>

\* n names a directory above the file m
DirectoryOf(n, m) == Len(n) < Len(m) /\ SubSeq(m, 1, Len(n) + 1) = n \o <<"/">>

\* the archives whose names can live together in one tree
Exportable(files) ==
    /\ \A i \in 1..Len(files) : RelativeName(files[i].Name)
    /\ \A i, j \in 1..Len(files) :
          i # j => /\ files[i].Name # files[j].Name
                   /\ ~DirectoryOf(files[i].Name, files[j].Name)

\* C14, as stated: every download request is answered with status 200.
C14_AlwaysSucceeds ==
    \A r \in Reqs : Done(r) => Len(resp[r]) = 1 /\ resp[r][1].status = 200

\* C14, amended: a download request is answered with status 200 and a
\* container exactly when the names of its archive are relative paths,
\* distinct, and none is a directory of another, and with status 400
\* otherwise; the archive without files gets the empty container.
C14_SucceedsOnValidNames ==
    \A r \in Reqs :
        Done(r) =>
            /\ Len(resp[r]) = 1
            /\ resp[r][1].status \in {200, 400}
            /\ resp[r][1].status = 200 <=> Exportable(archive[r])
            /\ resp[r][1].status = 200 => resp[r][1].template = "zip"
            /\ archive[r] = <<>> => resp[r][1].data.entries = {}

\* the empty archive was exported
C14_Witness ==
    \E r \in Reqs :
        /\ Done(r) /\ archive[r] = <<>>
        /\ resp[r] = <<[status |-> 200, template |-> "zip", data |-> [entries |-> {}]]>>

Exported(r) == Done(r) /\ Len(resp[r]) = 1 /\ resp[r][1].template = "zip"

Unpacked(entries) == {[Name |-> e.name, Data |-> Inflate(e.body)] : e \in entries}

\* C15, as stated: the entries of an exported container are exactly the files
\* of the archive, each with its name and its content.
C15_ExactlyTheFiles ==
    \A r \in Reqs :
        Exported(r) => Unpacked(resp[r][1].data.entries) = Range(archive[r])

\* C15, amended: the file entries of an exported container are exactly the
\* files of the archive, each with its name and its content; any other entry
\* is an empty header for a directory above one of the files.
C15_FilesRoundTrip ==
    \A r \in Reqs :
        Exported(r) =>
            LET entries == resp[r][1].data.entries
            IN /\ Unpacked({e \in entries : ~e.dir}) = Range(archive[r])
               /\ \A e \in entries :
                     e.dir => /\ Inflate(e.body) = <<>>
                              /\ \E i \in 1..Len(archive[r]) :
                                    DirectoryOf(SubSeq(e.name, 1, Len(e.name) - 1),
                                                archive[r][i].Name)

\* a plain file and a file in a directory were exported together
C15_Witness ==
    \E r \in Reqs :
        /\ Exported(r)
        /\ {archive[r][i].Name : i \in 1..Len(archive[r])} = {NameMain, NameSub}
        /\ Cardinality(resp[r][1].data.entries) = 2

\* a name with the .go extension
EndsWithGo(n) == Len(n) >= 3 /\ SubSeq(n, Len(n) - 2, Len(n)) = <<".", "g", "o">>

\* the first file, in archive order, that is a .go file checkImports refuses;
\* 0 when there is none
FirstRefused(files) ==
    LET bad == {i \in 1..Len(files) :
                  EndsWithGo(files[i].Name) /\ ~checkImports(files[i].Data).isNil}
    IN IF bad = {} THEN 0 ELSE CHOOSE i \in bad : \A j \in bad : i <= j

HasPrefix(s, pre) == Len(s) >= Len(pre) /\ SubSeq(s, 1, Len(pre)) = pre

Contains(s, piece) ==
    \E i \in 0..(Len(s) - Len(piece)) : SubSeq(s, i + 1, i + Len(piece)) = piece

Materialized(r) == \E e \in disk : e.path # tmp[r] /\ IsUnder(e.path, tmp[r])

\* C16: a screening rejection is always the rejection of a .go file, the
\* first one in archive order that checkImports refuses, so a file with
\* another extension never causes one; nothing is materialized unless every
\* .go file has passed; and once the copy is done every file of the archive,
\* .go or not, is in the working directory with its content unchanged.
C16_OnlyGoScreened ==
    \A r \in Reqs :
        /\ outcome[r] = "screen"
              => /\ FirstRefused(archive[r]) # 0
                 /\ HasPrefix(ret[r].err.msg,
                              <<"failed in ">> \o archive[r][FirstRefused(archive[r])].Name)
        /\ (outcome[r] \notin {"none", "mkdir", "screen"}) => FirstRefused(archive[r]) = 0
        /\ (tmp[r] # NoDir /\ Materialized(r)) => FirstRefused(archive[r]) = 0
        /\ pc[r] \in {"start", "wait", "read"}
              => \A i \in 1..Len(archive[r]) :
                    FileEntry(JoinPath(tmp[r], archive[r][i].Name), archive[r][i].Data) \in disk

\* a text file with a forbidden import in it sits unchanged in the working
\* directory, next to a .go file that passed
C16_Witness ==
    \E r \in Reqs :
        /\ pc[r] = "start"
        /\ archive[r] = << [Name |-> NameMain, Data |-> SrcGood],
                           [Name |-> NameText, Data |-> SrcForbidden] >>
        /\ FileEntry(JoinPath(tmp[r], NameText), SrcForbidden) \in disk

NotPermitted == <<" is not permitted on this site">>
FailedToParse == <<"failed to parse main.go: ">>

\* C17: a .go file whose import section does not parse keeps the compiler
\* from ever starting and makes the answered request a RunFailure; when it is
\* the file the screening stops at, the diagnostic starts with the name of
\* that file and is the parse message, not the 'not permitted' message, and
\* the diagnostic of an import violation is the 'not permitted' message, not
\* the parse message.
C17_SyntaxErrorNamed ==
    \A r \in Reqs :
        LET files == archive[r]
            k == FirstRefused(files)
            msg == ret[r].err.msg
        IN /\ (\E i \in 1..Len(files) :
                  EndsWithGo(files[i].Name) /\ ~ParseFile(files[i].Data).ok)
                 => /\ spawned[r] = 0
                    /\ Done(r) /\ outcome[r] # "none" => IsRunFailure(r)
           /\ (outcome[r] = "screen" /\ k # 0)
                 => /\ HasPrefix(msg, <<"failed in ">> \o files[k].Name \o <<": ">>)
                    /\ Done(r) => resp[r][1].data.BuildLogs = msg
                    /\ IF ParseFile(files[k].Data).ok
                       THEN Contains(msg, NotPermitted) /\ ~Contains(msg, FailedToParse)
                       ELSE Contains(msg, FailedToParse) /\ ~Contains(msg, NotPermitted)

\* a file with an import keyword and no path was rejected by name
C17_Witness ==
    \E r \in Reqs :
        /\ Done(r) /\ outcome[r] = "screen" /\ spawned[r] = 0
        /\ archive[r] = << [Name |-> NameMain, Data |-> <<KwPackage, KwImport, KwFunc>>] >>
        /\ IsRunFailure(r)
        /\ Contains(resp[r][1].data.BuildLogs, NameMain)

\* C18: once the deadline of a request has expired, the step it takes at a
\* blocking point (materializing the files, starting the compiler, reading
\* the artifact) performs nothing: it leaves the disk alone, starts no
\* process and makes the build attempt return an error.
C18_DeadlineCoversAll ==
    [][\A r \in Reqs :
          (ctx[r] = "deadline" /\ pc[r] \in {"copy", "start", "read"} /\ pc'[r] # pc[r])
             => /\ pc'[r] = "cleanup"
                /\ disk' = disk
                /\ spawned'[r] = spawned[r]
                /\ ~ret'[r].err.isNil]_vars

\* the text a response shows to the client
ClientText(w) ==
    IF w.template = "plain" THEN w.data.text
    ELSE IF w.template = "build-failure" THEN w.data.BuildLogs
    ELSE <<>>

\* C19: the answer to a build attempt that failed for an infrastructure error
\* contains the path of no working directory.
C19_NoPathLeak ==
    \A r \in Reqs :
        (Done(r) /\ outcome[r] \in {"mkdir", "copy", "read"})
            => \A i \in 1..Len(resp[r]) : \A d \in 1..MaxDirs :
                  ~Contains(ClientText(resp[r][i]), PathText(WorkDir(d)))

IsHttpError(w) == w.template = "plain" /\ w.status \in {400, 500}
IsRenderedFailure(w) == w.template = "build-failure" /\ w.status = 200
IsRenderedResult(w) == w.template \in {"run-item", "run.html.template"} /\ w.status = 200

\* C20: a compile request has no response while it is handled and exactly one
\* when the handler has returned: an HTTP error with status 400 or 500, a
\* rendered RunFailure or a rendered RunResult.
C20_ExactlyOneResponse ==
    \A r \in Reqs :
        /\ Len(resp[r]) = IF Done(r) THEN 1 ELSE 0
        /\ \A i \in 1..Len(resp[r]) :
              \/ IsHttpError(resp[r][i])
              \/ IsRenderedFailure(resp[r][i])
              \/ IsRenderedResult(resp[r][i])

\* the run template failed for a built program and the only response is the 500
C20_Witness ==
    \E r \in Reqs :
        /\ Done(r) /\ outcome[r] = "ok" /\ input[r].hxTarget = "runner"
        /\ resp[r] = <<HttpError(<<"Internal Server Error">>, 500)>>

====
